---------------------------- MODULE Spec2Model ----------------------------
(* A model of siggrep (src/siggrep.cpp): the nibble decoder unhex, the       *)
(* hex-pattern compiler parse_sig, the argument parser parse_args, the file  *)
(* loader read_all, the counting matcher count_sig and the driver wmain.     *)
(*                                                                           *)
(* Characters are their code units (wchar_t, 16 bit), bytes are 0..255,      *)
(* a C string is the sequence of its characters without the terminator, a    *)
(* Signature is a sequence of cells [first |-> byte, second |-> exact].      *)
(* Iterators into the byte buffer are offsets 0..Len(buffer); end is         *)
(* Len(buffer).                                                              *)
EXTENDS Integers, Sequences, FiniteSets

VARIABLES
  isspace_wide, \* what isspace() answers for an argument above 255 (undefined behaviour)
  unhex_ch,     \* unhex: the character it was called with
  unhex_ret,    \* unhex: the value it returned, -1 before it returns
  str,          \* parse_sig: the characters read so far through *str++ (0 is the terminator)
  ps,           \* parse_sig: its locals (state, nibble, sig) and its return value
  buffer,       \* count_sig: the bytes between the iterators it was called with
  pattern,      \* count_sig: the signature it was called with
  cs,           \* count_sig: its locals (begin, count) and its return value
  argv,         \* wmain: argv[1..] as far as parse_args has read it
  pa,           \* parse_args: its local state, args.file, args.sigs and its return value
  file,         \* wmain: the byte vector read_all filled
  read_ret,     \* wmain: what read_all returned, "none" before the call
  i,            \* wmain: the index of the counting loop
  out,          \* the characters written to standard output
  err,          \* the messages written to standard error
  pc,           \* wmain: the position in its body
  exit_code     \* the value wmain returned, -1 while it runs

vars == <<isspace_wide, unhex_ch, unhex_ret, str, ps, buffer, pattern, cs, argv, pa, file,
          read_ret, i, out, err, pc, exit_code>>

hexVars == <<unhex_ch, unhex_ret>>
sigVars == <<hexVars, str, ps>>
countVars == <<buffer, pattern, cs>>
mainVars == <<argv, pa, file, read_ret, i, out, err, pc, exit_code>>

-----------------------------------------------------------------------------
(* Bounds of the model                                                       *)

MaxText == 4    \* characters of a pattern text explored by SpecSig
MaxBuf == 4     \* bytes of a buffer explored by SpecCount
MaxSigLen == 3  \* cells of a signature explored by SpecCount
MaxArgs == 5    \* arguments after argv[0] explored by Spec
MaxValue == 3   \* characters of a flag's value explored by SpecValue

-----------------------------------------------------------------------------
(* Characters                                                                *)

\* the whitespace of the "C" locale: \t \n \v \f \r and the space
CSpace == {9, 10, 11, 12, 13, 32}

\* isspace(int): defined for 0..255 only; above that the standard leaves the
\* behaviour undefined, and the answer is whatever the build gives.
isspace(c) == IF c \in 0..255 THEN c \in CSpace ELSE isspace_wide

\* uint8_t unhex(Char ch)
unhex_truncating(c) ==
  LET low == c % 256 IN
  IF low >= 48 /\ low <= 57 THEN low - 48
  ELSE IF low >= 97 /\ low <= 102 THEN low - 97 + 10
  ELSE IF low >= 65 /\ low <= 70 THEN low - 65 + 10
  ELSE 255

unhex(ch) ==
  IF ch >= 128 \/ ch <= 0 THEN 255
  ELSE IF ch >= 48 /\ ch <= 57 THEN ch - 48
  ELSE IF ch >= 97 /\ ch <= 102 THEN ch - 97 + 10
  ELSE IF ch >= 65 /\ ch <= 70 THEN ch - 65 + 10
  ELSE 255

\* std::pair<uint8_t, bool>, as emplace_back(value, exact) builds it: the
\* value is converted to uint8_t.
Cell(value, exact) == [first |-> value % 256, second |-> exact]

-----------------------------------------------------------------------------
(* parse_sig                                                                 *)

\* the locals of parse_sig on entry
parse_sig_entry ==
  [state |-> "AfterSpace", nibble |-> 0, sig |-> <<>>, returned |-> FALSE, result |-> <<>>]

parse_sig_return(p, value) == [p EXCEPT !.returned = TRUE, !.result = value]

\* One evaluation of the loop condition `c = *str++` and, for c # 0, of the
\* loop body; for c = 0 the code after the loop.
parse_sig_step_second_hex(p, c) ==
  IF c = 0
    THEN IF p.state = "AfterFirst" THEN parse_sig_return(p, <<>>)
         ELSE parse_sig_return(p, p.sig)
  ELSE IF p.state = "AfterSpace"
    THEN LET n == unhex(c) IN
         IF isspace(c) THEN [p EXCEPT !.nibble = n]
         ELSE IF c = 63
           THEN [p EXCEPT !.nibble = n, !.sig = Append(p.sig, Cell(0, FALSE)),
                          !.state = "AfterWildcard"]
         ELSE IF n # 255 THEN [p EXCEPT !.nibble = n, !.state = "AfterFirst"]
         ELSE parse_sig_return([p EXCEPT !.nibble = n], <<>>)
  ELSE IF p.state = "AfterFirst"
    THEN LET second == unhex(c) IN
         IF second # 255
           THEN [p EXCEPT !.sig = Append(p.sig, Cell(p.nibble * 16 + second, TRUE)),
                          !.state = "AfterSecond"]
         ELSE parse_sig_return(p, <<>>)
  ELSE IF p.state = "AfterSecond"
    THEN IF isspace(c) THEN [p EXCEPT !.state = "AfterSpace"]
         ELSE IF unhex(c) # 255 THEN [p EXCEPT !.nibble = unhex(c), !.state = "AfterFirst"]
         ELSE parse_sig_return(p, <<>>)
  ELSE \* AfterWildcard
       IF isspace(c) THEN [p EXCEPT !.state = "AfterSpace"]
       ELSE IF c = 63 THEN p
       ELSE parse_sig_return(p, <<>>)

parse_sig_step_each_wildcard(p, c) ==
  IF c = 0
    THEN IF p.state = "AfterFirst" THEN parse_sig_return(p, <<>>)
         ELSE parse_sig_return(p, p.sig)
  ELSE IF p.state = "AfterSpace"
    THEN LET n == unhex(c) IN
         IF isspace(c) THEN [p EXCEPT !.nibble = n]
         ELSE IF c = 63
           THEN [p EXCEPT !.nibble = n, !.sig = Append(p.sig, Cell(0, FALSE)),
                          !.state = "AfterWildcard"]
         ELSE IF n # 255 THEN [p EXCEPT !.nibble = n, !.state = "AfterFirst"]
         ELSE parse_sig_return([p EXCEPT !.nibble = n], <<>>)
  ELSE IF p.state = "AfterFirst"
    THEN LET second == unhex(c) IN
         IF second # 255
           THEN [p EXCEPT !.sig = Append(p.sig, Cell(p.nibble * 16 + second, TRUE)),
                          !.state = "AfterSecond"]
         ELSE parse_sig_return(p, <<>>)
  ELSE IF p.state = "AfterSecond"
    THEN IF isspace(c) THEN [p EXCEPT !.state = "AfterSpace"]
         ELSE parse_sig_return(p, <<>>)
  ELSE \* AfterWildcard
       IF isspace(c) THEN [p EXCEPT !.state = "AfterSpace"]
       ELSE IF c = 63 THEN [p EXCEPT !.sig = Append(p.sig, Cell(0, FALSE))]
       ELSE parse_sig_return(p, <<>>)

parse_sig_step_partial(p, c) ==
  IF c = 0
    THEN IF p.state = "AfterFirst" THEN parse_sig_return(p, <<>>)
         ELSE parse_sig_return(p, p.sig)
  ELSE IF p.state = "AfterSpace"
    THEN LET n == unhex(c) IN
         IF isspace(c) THEN [p EXCEPT !.nibble = n]
         ELSE IF c = 63
           THEN [p EXCEPT !.nibble = n, !.sig = Append(p.sig, Cell(0, FALSE)),
                          !.state = "AfterWildcard"]
         ELSE IF n # 255 THEN [p EXCEPT !.nibble = n, !.state = "AfterFirst"]
         ELSE parse_sig_return([p EXCEPT !.nibble = n], p.sig)
  ELSE IF p.state = "AfterFirst"
    THEN LET second == unhex(c) IN
         IF second # 255
           THEN [p EXCEPT !.sig = Append(p.sig, Cell(p.nibble * 16 + second, TRUE)),
                          !.state = "AfterSecond"]
         ELSE parse_sig_return(p, <<>>)
  ELSE IF p.state = "AfterSecond"
    THEN IF isspace(c) THEN [p EXCEPT !.state = "AfterSpace"]
         ELSE parse_sig_return(p, <<>>)
  ELSE \* AfterWildcard
       IF isspace(c) THEN [p EXCEPT !.state = "AfterSpace"]
       ELSE IF c = 63 THEN p
       ELSE parse_sig_return(p, p.sig)

parse_sig_step_no_collapse(p, c) ==
  IF c = 0
    THEN IF p.state = "AfterFirst" THEN parse_sig_return(p, <<>>)
         ELSE parse_sig_return(p, p.sig)
  ELSE IF p.state = "AfterSpace"
    THEN LET n == unhex(c) IN
         IF isspace(c) THEN parse_sig_return([p EXCEPT !.nibble = n], <<>>)
         ELSE IF c = 63
           THEN [p EXCEPT !.nibble = n, !.sig = Append(p.sig, Cell(0, FALSE)),
                          !.state = "AfterWildcard"]
         ELSE IF n # 255 THEN [p EXCEPT !.nibble = n, !.state = "AfterFirst"]
         ELSE parse_sig_return([p EXCEPT !.nibble = n], <<>>)
  ELSE IF p.state = "AfterFirst"
    THEN LET second == unhex(c) IN
         IF second # 255
           THEN [p EXCEPT !.sig = Append(p.sig, Cell(p.nibble * 16 + second, TRUE)),
                          !.state = "AfterSecond"]
         ELSE parse_sig_return(p, <<>>)
  ELSE IF p.state = "AfterSecond"
    THEN IF isspace(c) THEN [p EXCEPT !.state = "AfterSpace"]
         ELSE parse_sig_return(p, <<>>)
  ELSE \* AfterWildcard
       IF isspace(c) THEN [p EXCEPT !.state = "AfterSpace"]
       ELSE IF c = 63 THEN p
       ELSE parse_sig_return(p, <<>>)

parse_sig_step(p, c) ==
  IF c = 0
    THEN IF p.state = "AfterFirst" THEN parse_sig_return(p, <<>>)
         ELSE parse_sig_return(p, p.sig)
  ELSE IF p.state = "AfterSpace"
    THEN LET n == unhex(c) IN
         IF isspace(c) THEN [p EXCEPT !.nibble = n]
         ELSE IF c = 63
           THEN [p EXCEPT !.nibble = n, !.sig = Append(p.sig, Cell(0, FALSE)),
                          !.state = "AfterWildcard"]
         ELSE IF n # 255 THEN [p EXCEPT !.nibble = n, !.state = "AfterFirst"]
         ELSE parse_sig_return([p EXCEPT !.nibble = n], <<>>)
  ELSE IF p.state = "AfterFirst"
    THEN LET second == unhex(c) IN
         IF second # 255
           THEN [p EXCEPT !.sig = Append(p.sig, Cell(p.nibble * 16 + second, TRUE)),
                          !.state = "AfterSecond"]
         ELSE parse_sig_return(p, <<>>)
  ELSE IF p.state = "AfterSecond"
    THEN IF isspace(c) THEN [p EXCEPT !.state = "AfterSpace"]
         ELSE parse_sig_return(p, <<>>)
  ELSE \* AfterWildcard
       IF isspace(c) THEN [p EXCEPT !.state = "AfterSpace"]
       ELSE IF c = 63 THEN p
       ELSE parse_sig_return(p, <<>>)

\* the loop of parse_sig over the C string s from its k-th character on
RECURSIVE parse_sig_loop(_, _, _)
parse_sig_loop(p, s, k) ==
  IF p.returned THEN p.result
  ELSE parse_sig_loop(parse_sig_step(p, IF k <= Len(s) THEN s[k] ELSE 0), s, k + 1)

\* Signature parse_sig(const wchar_t* str)
parse_sig(s) == parse_sig_loop(parse_sig_entry, s, 1)


-----------------------------------------------------------------------------
(* count_sig                                                                 *)

\* the predicate count_sig hands to std::search
pred_compare_wildcard(curr, curr_pattern) == curr = curr_pattern.first

pred(curr, curr_pattern) == (~curr_pattern.second) \/ curr = curr_pattern.first

\* buf[first .. first + Len(sig)) matches sig cell by cell, from the k-th cell on
RECURSIVE match_from(_, _, _, _)
match_from(buf, first, sig, k) ==
  IF k > Len(sig) THEN TRUE
  ELSE IF ~pred(buf[first + k], sig[k]) THEN FALSE
  ELSE match_from(buf, first, sig, k + 1)

\* std::search(first, end, sig.begin(), sig.end(), pred): the first offset at
\* or after first where the whole of sig matches, end when there is none, and
\* first itself for an empty sig.
RECURSIVE search(_, _, _)
search(buf, first, sig) ==
  IF Len(sig) = 0 THEN first
  ELSE IF first + Len(sig) > Len(buf) THEN Len(buf)
  ELSE IF match_from(buf, first, sig, 1) THEN first
  ELSE search(buf, first + 1, sig)

\* the locals of count_sig on entry
count_sig_entry(begin) == [begin |-> begin, count |-> 0, returned |-> FALSE, result |-> 0]

\* one iteration of the while (true) loop of count_sig
count_sig_iter_skip_match(buf, sig, c) ==
  LET found == search(buf, c.begin, sig) IN
  IF found = Len(buf) THEN [c EXCEPT !.begin = found, !.returned = TRUE, !.result = c.count]
  ELSE IF found + Len(sig) >= Len(buf)
    THEN [c EXCEPT !.begin = Len(buf), !.count = c.count + 1,
                   !.returned = TRUE, !.result = c.count + 1]
  ELSE [c EXCEPT !.begin = found + Len(sig), !.count = c.count + 1]

count_sig_iter_no_advance(buf, sig, c) ==
  LET found == search(buf, c.begin, sig) IN
  IF found = Len(buf) THEN [c EXCEPT !.begin = found, !.returned = TRUE, !.result = c.count]
  ELSE [c EXCEPT !.begin = found, !.count = c.count + 1]

count_sig_iter(buf, sig, c) ==
  LET found == search(buf, c.begin, sig) IN
  IF found = Len(buf) THEN [c EXCEPT !.begin = found, !.returned = TRUE, !.result = c.count]
  ELSE IF found + 1 = Len(buf)
    THEN [c EXCEPT !.begin = found + 1, !.count = c.count + 1,
                   !.returned = TRUE, !.result = c.count + 1]
  ELSE [c EXCEPT !.begin = found + 1, !.count = c.count + 1]

RECURSIVE count_sig_loop(_, _, _)
count_sig_loop(buf, sig, c) ==
  IF c.returned THEN c.result ELSE count_sig_loop(buf, sig, count_sig_iter(buf, sig, c))

\* int count_sig(It begin, It end, Signature& sig), called with the whole of buf
count_sig(buf, sig) == count_sig_loop(buf, sig, count_sig_entry(0))


-----------------------------------------------------------------------------
(* parse_args                                                                *)

\* the strings parse_args compares an argument with
FlagPattern == <<45, 45, 112, 97, 116, 116, 101, 114, 110>>  \* L"--pattern"
FlagNarrow == <<45, 45, 110, 97, 114, 114, 111, 119>>        \* L"--narrow"
FlagWide == <<45, 45, 119, 105, 100, 101>>                   \* L"--wide"
FlagWideBE == <<45, 45, 119, 105, 100, 101, 98, 101>>        \* L"--widebe"
FlagDashDash == <<45, 45>>                                   \* L"--"

\* the loop of the ValueNarrow branch from the k-th character on; failed where
\* the branch returns false
RECURSIVE narrow_sig_low_byte(_, _, _)
narrow_sig_low_byte(arg, k, sig) ==
  IF k > Len(arg) THEN [failed |-> FALSE, sig |-> sig]
  ELSE LET uchar == arg[k] % 256 IN
       IF uchar > 255 THEN [failed |-> TRUE, sig |-> sig]
       ELSE narrow_sig_low_byte(arg, k + 1, Append(sig, Cell(uchar, TRUE)))

RECURSIVE narrow_sig(_, _, _)
narrow_sig(arg, k, sig) ==
  IF k > Len(arg) THEN [failed |-> FALSE, sig |-> sig]
  ELSE LET ushort == arg[k] % 65536 IN
       IF ushort > 255 THEN [failed |-> TRUE, sig |-> sig]
       ELSE narrow_sig(arg, k + 1, Append(sig, Cell(ushort, TRUE)))

\* the loop of the ValueWide branch
RECURSIVE wide_sig_high_first(_, _, _)
wide_sig_high_first(arg, k, sig) ==
  IF k > Len(arg) THEN sig
  ELSE LET ushort == arg[k] % 65536 IN
       wide_sig_high_first(arg, k + 1,
                           Append(Append(sig, Cell(ushort \div 256, TRUE)), Cell(ushort, TRUE)))

RECURSIVE wide_sig(_, _, _)
wide_sig(arg, k, sig) ==
  IF k > Len(arg) THEN sig
  ELSE LET ushort == arg[k] % 65536 IN
       wide_sig(arg, k + 1, Append(Append(sig, Cell(ushort, TRUE)), Cell(ushort \div 256, TRUE)))

\* the loop of the ValueWideBE branch
RECURSIVE widebe_sig(_, _, _)
widebe_sig(arg, k, sig) ==
  IF k > Len(arg) THEN sig
  ELSE LET ushort == arg[k] % 65536 IN
       widebe_sig(arg, k + 1, Append(Append(sig, Cell(ushort \div 256, TRUE)), Cell(ushort, TRUE)))

\* the locals of parse_args after the two clear() calls
parse_args_entry ==
  [state |-> "Type", file |-> <<>>, sigs |-> <<>>, returned |-> FALSE, result |-> FALSE]

parse_args_return(p, value) == [p EXCEPT !.returned = TRUE, !.result = value]

\* args.sigs.emplace_back(std::move(sig)); state = State::Type;
parse_args_add_front(p, sig) == [p EXCEPT !.sigs = <<sig>> \o p.sigs, !.state = "Type"]

parse_args_add(p, sig) == [p EXCEPT !.sigs = Append(p.sigs, sig), !.state = "Type"]

\* one iteration of the for loop of parse_args, on the argument arg
parse_args_step_reject_dash(p, arg) ==
  IF p.state = "Type"
    THEN IF arg = FlagPattern THEN [p EXCEPT !.state = "ValuePattern"]
         ELSE IF arg = FlagNarrow THEN [p EXCEPT !.state = "ValueNarrow"]
         ELSE IF arg = FlagWide THEN [p EXCEPT !.state = "ValueWide"]
         ELSE IF arg = FlagWideBE THEN [p EXCEPT !.state = "ValueWideBE"]
         ELSE IF arg = FlagDashDash THEN [p EXCEPT !.state = "FileOnly"]
         ELSE IF Len(arg) >= 1 /\ arg[1] = 45 THEN parse_args_return(p, FALSE)
         ELSE [p EXCEPT !.file = arg, !.state = "Done"]
  ELSE IF p.state = "FileOnly" THEN [p EXCEPT !.file = arg, !.state = "Done"]
  ELSE IF p.state = "ValuePattern"
    THEN LET sig == parse_sig(arg) IN
         IF Len(sig) = 0 THEN parse_args_return(p, FALSE) ELSE parse_args_add(p, sig)
  ELSE IF p.state = "ValueNarrow"
    THEN LET narrow == narrow_sig(arg, 1, <<>>) IN
         IF narrow.failed THEN parse_args_return(p, FALSE) ELSE parse_args_add(p, narrow.sig)
  ELSE IF p.state = "ValueWide" THEN parse_args_add(p, wide_sig(arg, 1, <<>>))
  ELSE IF p.state = "ValueWideBE" THEN parse_args_add(p, widebe_sig(arg, 1, <<>>))
  ELSE parse_args_return(p, FALSE)

parse_args_step_done_overwrites(p, arg) ==
  IF p.state = "Type"
    THEN IF arg = FlagPattern THEN [p EXCEPT !.state = "ValuePattern"]
         ELSE IF arg = FlagNarrow THEN [p EXCEPT !.state = "ValueNarrow"]
         ELSE IF arg = FlagWide THEN [p EXCEPT !.state = "ValueWide"]
         ELSE IF arg = FlagWideBE THEN [p EXCEPT !.state = "ValueWideBE"]
         ELSE IF arg = FlagDashDash THEN [p EXCEPT !.state = "FileOnly"]
         ELSE [p EXCEPT !.file = arg, !.state = "Done"]
  ELSE IF p.state = "FileOnly" THEN [p EXCEPT !.file = arg, !.state = "Done"]
  ELSE IF p.state = "ValuePattern"
    THEN LET sig == parse_sig(arg) IN
         IF Len(sig) = 0 THEN parse_args_return(p, FALSE) ELSE parse_args_add(p, sig)
  ELSE IF p.state = "ValueNarrow"
    THEN LET narrow == narrow_sig(arg, 1, <<>>) IN
         IF narrow.failed THEN parse_args_return(p, FALSE) ELSE parse_args_add(p, narrow.sig)
  ELSE IF p.state = "ValueWide" THEN parse_args_add(p, wide_sig(arg, 1, <<>>))
  ELSE IF p.state = "ValueWideBE" THEN parse_args_add(p, widebe_sig(arg, 1, <<>>))
  ELSE [p EXCEPT !.file = arg]

parse_args_step(p, arg) ==
  IF p.state = "Type"
    THEN IF arg = FlagPattern THEN [p EXCEPT !.state = "ValuePattern"]
         ELSE IF arg = FlagNarrow THEN [p EXCEPT !.state = "ValueNarrow"]
         ELSE IF arg = FlagWide THEN [p EXCEPT !.state = "ValueWide"]
         ELSE IF arg = FlagWideBE THEN [p EXCEPT !.state = "ValueWideBE"]
         ELSE IF arg = FlagDashDash THEN [p EXCEPT !.state = "FileOnly"]
         ELSE [p EXCEPT !.file = arg, !.state = "Done"]
  ELSE IF p.state = "FileOnly" THEN [p EXCEPT !.file = arg, !.state = "Done"]
  ELSE IF p.state = "ValuePattern"
    THEN LET sig == parse_sig(arg) IN
         IF Len(sig) = 0 THEN parse_args_return(p, FALSE) ELSE parse_args_add(p, sig)
  ELSE IF p.state = "ValueNarrow"
    THEN LET narrow == narrow_sig(arg, 1, <<>>) IN
         IF narrow.failed THEN parse_args_return(p, FALSE) ELSE parse_args_add(p, narrow.sig)
  ELSE IF p.state = "ValueWide" THEN parse_args_add(p, wide_sig(arg, 1, <<>>))
  ELSE IF p.state = "ValueWideBE" THEN parse_args_add(p, widebe_sig(arg, 1, <<>>))
  ELSE parse_args_return(p, FALSE)

\* the code of parse_args after the loop
parse_args_end_no_state_check(p) ==
  IF Len(p.sigs) = 0 THEN parse_args_return(p, FALSE)
  ELSE parse_args_return(p, TRUE)

parse_args_end(p) ==
  IF Len(p.sigs) = 0 THEN parse_args_return(p, FALSE)
  ELSE IF p.state # "Done" THEN parse_args_return(p, FALSE)
  ELSE parse_args_return(p, TRUE)

\* bool parse_args(Arguments& args, int argc, wchar_t** argv) on the whole of av
RECURSIVE parse_args_loop(_, _, _)
parse_args_loop(p, av, k) ==
  IF p.returned THEN p
  ELSE IF k > Len(av) THEN parse_args_end(p)
  ELSE parse_args_loop(parse_args_step(p, av[k]), av, k + 1)

parse_args(av) == parse_args_loop(parse_args_entry, av, 1)

-----------------------------------------------------------------------------
(* wmain's output                                                            *)

\* the characters of %d for a count, which is never negative
RECURSIVE Decimal(_)
Decimal(n) == IF n < 10 THEN <<48 + n>> ELSE Append(Decimal(n \div 10), 48 + (n % 10))

\* printf("%d\n", count) for the last signature, printf("%d,", count) before it
print_count(k, sig_count, count) ==
  IF k = sig_count - 1 THEN Append(Decimal(count), 10) ELSE Append(Decimal(count), 44)


-----------------------------------------------------------------------------
(* The inputs explored                                                       *)

\* the sequences over S of length 0..n
SeqsUpTo(S, n) == UNION {[1..k -> S] : k \in 0..n}

\* pattern characters: tab, space, '?', '4', 'F', 'a', 'g' and U+0134
SigChars == {9, 32, 63, 52, 70, 97, 103, 308}

\* buffer bytes and signature cells of SpecCount
Bytes == {0, 65}
Cells == {Cell(65, TRUE), Cell(0, TRUE), Cell(0, FALSE), Cell(65, FALSE)}

\* command-line arguments: the five flags, "", "41", "41 ? 41", "A" and "-x"
PatternByte == <<52, 49>>
PatternWild == <<52, 49, 32, 63, 32, 52, 49>>
ArgValues ==
  {FlagPattern, FlagNarrow, FlagWide, FlagWideBE, FlagDashDash,
   <<>>, PatternByte, PatternWild, <<65>>, <<45, 120>>}

\* what the file named on the command line may hold
FileContents == {<<>>, <<65, 0, 65, 255, 65>>}

\* bool read_all(path, data), by what the file system answers: the stream does
\* not open (data stays cleared); it opens and is sized but is not good after
\* the read; it is read whole.
read_all ==
  {[ret |-> FALSE, data |-> <<>>]}
    \cup {[ret |-> FALSE, data |-> content] : content \in FileContents}
    \cup {[ret |-> TRUE, data |-> content] : content \in FileContents}

-----------------------------------------------------------------------------
(* parse_sig, one character at a time                                        *)

SigIdle == /\ unhex_ch = 0
           /\ unhex_ret = -1
           /\ str = <<>>
           /\ ps = parse_sig_entry
CountIdle == /\ buffer = <<>>
             /\ pattern = <<>>
             /\ cs = count_sig_entry(0)
MainIdle == /\ argv = <<>>
            /\ pa = parse_args_entry
            /\ file = <<>>
            /\ read_ret = "none"
            /\ i = 0
            /\ out = <<>>
            /\ err = <<>>
            /\ pc = "parse_args"
            /\ exit_code = -1

InitSig == /\ isspace_wide \in BOOLEAN
           /\ SigIdle
           /\ CountIdle
           /\ MainIdle

\* parse_sig reads the next character of its argument: one of SigChars, or the
\* terminator
ParseSigChar ==
  /\ ~ps.returned
  /\ \E c \in SigChars \cup {0} :
       /\ c # 0 => Len(str) < MaxText
       /\ str' = Append(str, c)
       /\ ps' = parse_sig_step(ps, c)
  /\ UNCHANGED <<isspace_wide, hexVars, countVars, mainVars>>

NextSig == ParseSigChar

SpecSig == InitSig /\ [][NextSig]_vars

-----------------------------------------------------------------------------
(* count_sig, one iteration at a time                                        *)

InitCount == /\ isspace_wide = FALSE
             /\ SigIdle
             /\ MainIdle
             /\ buffer \in SeqsUpTo(Bytes, MaxBuf)
             /\ pattern \in SeqsUpTo(Cells, MaxSigLen)
             /\ cs = count_sig_entry(0)

CountSigIter ==
  /\ ~cs.returned
  /\ cs' = count_sig_iter(buffer, pattern, cs)
  /\ UNCHANGED <<isspace_wide, sigVars, buffer, pattern, mainVars>>

NextCount == CountSigIter

SpecCount == InitCount /\ [][NextCount]_vars

-----------------------------------------------------------------------------
(* wmain                                                                     *)

\* No argument of ArgValues holds a character above 255, so a run of Spec
\* never calls isspace outside its domain and isspace_wide is never read.
Init == /\ isspace_wide = FALSE
        /\ SigIdle
        /\ CountIdle
        /\ MainIdle

\* parse_args: an iteration of its loop, on the next argument
ParseArgsIter ==
  /\ pc = "parse_args"
  /\ ~pa.returned
  /\ Len(argv) < MaxArgs
  /\ \E arg \in ArgValues :
       /\ argv' = Append(argv, arg)
       /\ pa' = parse_args_step(pa, arg)
  /\ UNCHANGED <<isspace_wide, sigVars, countVars, file, read_ret, i, out, err, pc, exit_code>>

\* parse_args: i reached argc
ParseArgsEnd ==
  /\ pc = "parse_args"
  /\ ~pa.returned
  /\ pa' = parse_args_end(pa)
  /\ UNCHANGED <<isspace_wide, sigVars, countVars, argv, file, read_ret, i, out, err, pc,
                 exit_code>>

\* wmain: parse_args returned false
Usage_to_stdout ==
  /\ pc = "parse_args"
  /\ pa.returned
  /\ ~pa.result
  /\ out' = out \o <<85, 115, 97, 103, 101>>
  /\ exit_code' = 1
  /\ pc' = "exited"
  /\ UNCHANGED <<isspace_wide, sigVars, countVars, argv, pa, file, read_ret, i, err>>

Usage ==
  /\ pc = "parse_args"
  /\ pa.returned
  /\ ~pa.result
  /\ err' = Append(err, <<"Usage">>)
  /\ exit_code' = 1
  /\ pc' = "exited"
  /\ UNCHANGED <<isspace_wide, sigVars, countVars, argv, pa, file, read_ret, i, out>>

\* wmain: parse_args returned true, read_all is called on args.file
ReadAll ==
  /\ pc = "parse_args"
  /\ pa.returned
  /\ pa.result
  /\ \E r \in read_all :
       /\ file' = r.data
       /\ read_ret' = IF r.ret THEN "true" ELSE "false"
  /\ pc' = "read_all"
  /\ UNCHANGED <<isspace_wide, sigVars, countVars, argv, pa, i, out, err, exit_code>>

\* wmain: read_all returned false
FailedReading_return1 ==
  /\ pc = "read_all"
  /\ read_ret = "false"
  /\ err' = Append(err, <<"Failed opening or reading file", pa.file>>)
  /\ exit_code' = 1
  /\ pc' = "exited"
  /\ UNCHANGED <<isspace_wide, sigVars, countVars, argv, pa, file, read_ret, i, out>>

FailedReading ==
  /\ pc = "read_all"
  /\ read_ret = "false"
  /\ err' = Append(err, <<"Failed opening or reading file", pa.file>>)
  /\ exit_code' = 2
  /\ pc' = "exited"
  /\ UNCHANGED <<isspace_wide, sigVars, countVars, argv, pa, file, read_ret, i, out>>

\* wmain: read_all returned true; an iteration of the counting loop
CountAndPrint_consumes ==
  /\ pc = "read_all"
  /\ read_ret = "true"
  /\ i < Len(pa.sigs)
  /\ out' = out \o print_count(i, Len(pa.sigs), count_sig(file, pa.sigs[i + 1]))
  /\ i' = i + 1
  /\ file' = IF file = <<>> THEN file ELSE Tail(file)
  /\ UNCHANGED <<isspace_wide, sigVars, countVars, argv, pa, read_ret, err, pc, exit_code>>

CountAndPrint ==
  /\ pc = "read_all"
  /\ read_ret = "true"
  /\ i < Len(pa.sigs)
  /\ out' = out \o print_count(i, Len(pa.sigs), count_sig(file, pa.sigs[i + 1]))
  /\ i' = i + 1
  /\ UNCHANGED <<isspace_wide, sigVars, countVars, argv, pa, file, read_ret, err, pc, exit_code>>

\* wmain: the counting loop is over
Return0 ==
  /\ pc = "read_all"
  /\ read_ret = "true"
  /\ i >= Len(pa.sigs)
  /\ exit_code' = 0
  /\ pc' = "exited"
  /\ UNCHANGED <<isspace_wide, sigVars, countVars, argv, pa, file, read_ret, i, out, err>>

Next ==
  \/ ParseArgsIter
  \/ ParseArgsEnd
  \/ Usage
  \/ ReadAll
  \/ FailedReading
  \/ CountAndPrint
  \/ Return0

Spec == Init /\ [][Next]_vars

-----------------------------------------------------------------------------
(* Properties of count_sig                                                   *)

\* the start positions at which sig occurs in buf
Occurrences(buf, sig) ==
  {p \in 0..Len(buf) :
     /\ p + Len(sig) <= Len(buf)
     /\ \A k \in 1..Len(sig) : (~sig[k].second) \/ buf[p + k] = sig[k].first}

\* C1: for every buffer and every non-empty signature, count_sig returns the
\* number of start positions p with p + len(signature) <= len(buffer) at which
\* every cell is a wildcard or equals the buffer byte, overlapping matches
\* included, and 0 when the signature is longer than the buffer.
C1_CountIsOccurrences ==
  (cs.returned /\ Len(pattern) >= 1) =>
     /\ cs.result = Cardinality(Occurrences(buffer, pattern))
     /\ Len(pattern) > Len(buffer) => cs.result = 0

\* "AA" over "AAAA" has been counted as 3
C1_Witness ==
  /\ cs.returned
  /\ buffer = <<65, 65, 65, 65>>
  /\ pattern = <<Cell(65, TRUE), Cell(65, TRUE)>>
  /\ cs.result = 3

-----------------------------------------------------------------------------
(* Properties of a whole run                                                 *)

\* a run that ended on the single signature --pattern "41 ? 41" and a file
\* read whole as 41 00 41 FF 41
C2_Run ==
  /\ pc = "exited"
  /\ Len(argv) >= 3
  /\ argv[1] = FlagPattern
  /\ argv[2] = PatternWild
  /\ Len(pa.sigs) = 1
  /\ read_ret = "true"
  /\ file = <<65, 0, 65, 255, 65>>

\* C2 as stated: that run prints the line "1" and exits with code 0.
C2_Original == C2_Run => (out = <<49, 10>> /\ exit_code = 0)

\* C2 as amended: that run prints the line "2" (the signature occurs at
\* offsets 0 and 2) and exits with code 0.
C2_PrintsTwo == C2_Run => (out = <<50, 10>> /\ exit_code = 0)

C2_Witness == C2_Run /\ Len(argv) = 3 /\ out # <<>>

\* C3: whenever parse_args succeeds every signature of args.sigs has length
\* >= 1, and count_sig is never called on an empty signature.
C3_NoEmptySignature ==
  /\ (pa.returned /\ pa.result) => \A k \in 1..Len(pa.sigs) : Len(pa.sigs[k]) >= 1
  /\ (pc = "read_all" /\ read_ret = "true" /\ i < Len(pa.sigs)) => Len(pa.sigs[i + 1]) >= 1

-----------------------------------------------------------------------------
(* The command line, read by position                                        *)

SigFlags == {FlagPattern, FlagNarrow, FlagWide, FlagWideBE}
AllFlags == SigFlags \cup {FlagDashDash}

\* av[k] stands where a flag is expected: every argument before it is a
\* signature flag followed by its value
InFlagPos(av, k) ==
  /\ k \in 1..Len(av)
  /\ k % 2 = 1
  /\ \A j \in 1..(k - 1) : j % 2 = 1 => av[j] \in SigFlags

\* av[k] stands in flag position and is none of the five flags
UnrecognizedAt(av, k) == InFlagPos(av, k) /\ av[k] \notin AllFlags

\* av[k] is the argument after a bare -- in flag position
AfterDashDash(av, k) == k >= 2 /\ InFlagPos(av, k - 1) /\ av[k - 1] = FlagDashDash

EndsWithSigFlag(av) == InFlagPos(av, Len(av)) /\ av[Len(av)] \in SigFlags
NoSignature(av) == ~(Len(av) >= 2 /\ av[1] \in SigFlags)
NoFileArg(av) == ~\E k \in 1..Len(av) : UnrecognizedAt(av, k) \/ AfterDashDash(av, k)

\* the value av[j] compiles under the signature flag before it
Compiles(av, j) ==
  IF av[j - 1] = FlagPattern THEN Len(parse_sig(av[j])) >= 1
  ELSE IF av[j - 1] = FlagNarrow THEN ~narrow_sig(av[j], 1, <<>>).failed
  ELSE TRUE

\* C4 as stated: an argument sequence with an unrecognized flag makes
\* parse_args return false, and the run exits with code 1. (Read in the
\* claim's favour: only an argument that begins with '-' counts as a flag.)
C4_Original ==
  (\E k \in 1..Len(argv) : UnrecognizedAt(argv, k) /\ argv[k] # <<>> /\ argv[k][1] = 45) =>
     /\ pa.returned => ~pa.result
     /\ pc = "exited" => exit_code = 1

\* C4 as amended: an argument in flag position that is none of the five flags
\* is taken verbatim as the file path; parse_args then returns true exactly
\* when that argument is the last one, a signature precedes it and every
\* value before it compiles (and the run then does not exit with code 1).
C4_UnrecognizedIsFile ==
  \A k \in 1..Len(argv) :
    (UnrecognizedAt(argv, k) /\ pa.returned) =>
       /\ pa.file = argv[k]
       /\ pa.result <=>
            (k = Len(argv) /\ k > 1 /\ \A j \in 1..k : j % 2 = 0 => Compiles(argv, j))
       /\ pc = "exited" => (exit_code = 1 <=> ~pa.result)

\* parse_args has returned true on a sequence that ends with "-x" in flag position
C4_Witness ==
  /\ pa.returned
  /\ pa.result
  /\ Len(argv) >= 1
  /\ argv[Len(argv)] = <<45, 120>>
  /\ UnrecognizedAt(argv, Len(argv))

\* C5: parse_args returns false, and the run exits with code 1, when the
\* sequence ends with a signature flag that has no value, supplies no
\* signature, or supplies no file argument.
C5_IncompleteIsUsageError ==
  (EndsWithSigFlag(argv) \/ NoSignature(argv) \/ NoFileArg(argv)) =>
     /\ pa.returned => ~pa.result
     /\ pc = "exited" => exit_code = 1

\* the run exited on a sequence that ends with a signature flag after a
\* complete signature
C5_Witness ==
  /\ pc = "exited"
  /\ Len(argv) = 3
  /\ EndsWithSigFlag(argv)
  /\ Len(pa.sigs) = 1
  /\ exit_code = 1

-----------------------------------------------------------------------------
(* The output of a run                                                       *)

\* the signature the flag and its value stand for
FlagSig(flag, value) ==
  IF flag = FlagPattern THEN parse_sig(value)
  ELSE IF flag = FlagNarrow THEN narrow_sig(value, 1, <<>>).sig
  ELSE IF flag = FlagWide THEN wide_sig(value, 1, <<>>)
  ELSE widebe_sig(value, 1, <<>>)

\* the counts of the k-th to the n-th flag occurrence of av over buf, comma
\* separated, newline terminated
RECURSIVE CountsLine(_, _, _, _)
CountsLine(av, buf, k, n) ==
  IF k > n THEN <<>>
  ELSE Decimal(count_sig(buf, FlagSig(av[2 * k - 1], av[2 * k])))
         \o (IF k = n THEN <<10>> ELSE <<44>>)
         \o CountsLine(av, buf, k + 1, n)

\* the number of commas and newlines in a sequence of characters
Separators(line) == Cardinality({k \in 1..Len(line) : line[k] \in {10, 44}})

\* C6: a successful run with n signature flags prints exactly n counts on one
\* line, the k-th being the count of the signature of the k-th flag
\* occurrence, comma separated, without a trailing comma, newline terminated.
C6_CountsInInputOrder ==
  (pc = "exited" /\ exit_code = 0) =>
     LET n == (Len(argv) - 1) \div 2 IN
     /\ n = Len(pa.sigs)
     /\ out = CountsLine(argv, file, 1, n)
     /\ Separators(out) = n
     /\ out[Len(out)] = 10

\* a run printed "3,2": the counts of "41" and of "41 ? 41", in that order
C6_Witness ==
  /\ pc = "exited"
  /\ exit_code = 0
  /\ Len(argv) = 5
  /\ argv[2] = PatternByte
  /\ argv[4] = PatternWild
  /\ out = <<51, 44, 50, 10>>

\* C7: nothing is on standard output before parse_args has returned true and
\* read_all has returned true, and a run that ended with code 1 or 2 has
\* written nothing to it.
C7_NoOutputBeforeLoad ==
  /\ out # <<>> => (pa.returned /\ pa.result /\ read_ret = "true")
  /\ exit_code \in {1, 2} => out = <<>>

\* the first of two counts is written, the file is loaded
C7_Witness ==
  /\ pc = "read_all"
  /\ i = 1
  /\ Len(pa.sigs) = 2
  /\ out # <<>>
  /\ file # <<>>

-----------------------------------------------------------------------------
(* Properties of parse_sig                                                   *)

HexDigits == (48..57) \cup (65..70) \cup (97..102)
HexValue(c) == IF c <= 57 THEN c - 48 ELSE IF c <= 70 THEN c - 55 ELSE c - 87

\* the character classes of the state machine of the specification
CharClass(c) ==
  IF c = 0 THEN "end"
  ELSE IF isspace(c) THEN "space"
  ELSE IF c = 63 THEN "wildcard"
  ELSE IF c \in HexDigits THEN "hex"
  ELSE "other"

\* the state machine of the specification: its state, the remembered nibble,
\* the cells emitted, and whether it has stopped ("fail" or "success")
MachineStart == [state |-> "AfterSpace", nibble |-> 0, cells |-> <<>>, stopped |-> "no"]

MachineStep(m, c) ==
  LET class == CharClass(c) IN
  IF m.stopped # "no" THEN m
  ELSE IF class = "end"
    THEN [m EXCEPT !.stopped = IF m.state = "AfterFirst" THEN "fail" ELSE "success"]
  ELSE IF m.state = "AfterSpace" /\ class = "space" THEN m
  ELSE IF m.state = "AfterSpace" /\ class = "wildcard"
    THEN [m EXCEPT !.cells = Append(m.cells, [first |-> 0, second |-> FALSE]),
                   !.state = "AfterWildcard"]
  ELSE IF m.state = "AfterSpace" /\ class = "hex"
    THEN [m EXCEPT !.nibble = HexValue(c), !.state = "AfterFirst"]
  ELSE IF m.state = "AfterFirst" /\ class = "hex"
    THEN [m EXCEPT !.cells = Append(m.cells, [first |-> m.nibble * 16 + HexValue(c),
                                               second |-> TRUE]),
                   !.state = "AfterSecond"]
  ELSE IF m.state = "AfterSecond" /\ class = "space" THEN [m EXCEPT !.state = "AfterSpace"]
  ELSE IF m.state = "AfterWildcard" /\ class = "space" THEN [m EXCEPT !.state = "AfterSpace"]
  ELSE IF m.state = "AfterWildcard" /\ class = "wildcard" THEN m
  ELSE [m EXCEPT !.stopped = "fail"]

RECURSIVE MachineRun(_, _, _)
MachineRun(m, s, k) == IF k > Len(s) THEN m ELSE MachineRun(MachineStep(m, s[k]), s, k + 1)

\* C9: parse_sig is the four-state machine of the specification: after every
\* character it is in the machine's state with the machine's cells, it
\* returns when the machine stops, the empty signature where the machine
\* fails and the cells where it succeeds.
C9_IsTheStateMachine ==
  LET m == MachineRun(MachineStart, str, 1) IN
  /\ ps.returned <=> m.stopped # "no"
  /\ ~ps.returned => (ps.state = m.state /\ ps.sig = m.cells)
  /\ ps.returned => ps.result = (IF m.stopped = "fail" THEN <<>> ELSE m.cells)

\* parse_sig returned [(0x4F, true), (0, false)] for "4F ?"
C9_Witness ==
  /\ ps.returned
  /\ str = <<52, 70, 32, 63, 0>>
  /\ ps.result = <<[first |-> 79, second |-> TRUE], [first |-> 0, second |-> FALSE]>>

\* the whitespace-delimited tokens of s from its k-th character on, cur being
\* the token under way
RECURSIVE Tokens(_, _, _)
Tokens(s, k, cur) ==
  IF k > Len(s) THEN (IF cur = <<>> THEN <<>> ELSE <<cur>>)
  ELSE IF isspace(s[k])
    THEN (IF cur = <<>> THEN <<>> ELSE <<cur>>) \o Tokens(s, k + 1, <<>>)
  ELSE Tokens(s, k + 1, Append(cur, s[k]))

WildcardToken(tok) == \A j \in 1..Len(tok) : tok[j] = 63
HexToken(tok) == Len(tok) = 2 /\ tok[1] \in HexDigits /\ tok[2] \in HexDigits

\* C10: for a text parse_sig accepts, the cells are the tokens in order: one
\* wildcard cell for a token of one or more '?', one exact cell for a token of
\* two hex digits.
C10_OneCellPerToken ==
  (ps.returned /\ ps.result # <<>>) =>
     LET toks == Tokens(SubSeq(str, 1, Len(str) - 1), 1, <<>>) IN
     /\ Len(ps.result) = Len(toks)
     /\ \A k \in 1..Len(toks) :
          \/ WildcardToken(toks[k]) /\ ps.result[k] = [first |-> 0, second |-> FALSE]
          \/ /\ HexToken(toks[k])
             /\ ps.result[k] = [first |-> 16 * HexValue(toks[k][1]) + HexValue(toks[k][2]),
                                second |-> TRUE]

\* parse_sig returned two cells for a text of two tokens, one of them "??"
C10_Witness ==
  /\ ps.returned
  /\ Len(ps.result) = 2
  /\ \E tok \in {<<63, 63>>} :
       \E k \in 1..2 : Tokens(SubSeq(str, 1, Len(str) - 1), 1, <<>>)[k] = tok

-----------------------------------------------------------------------------
(* parse_args on one signature flag and its value                            *)

\* the characters of a value: space, '?', '4', 'F', 'g', U+00FF, U+0100,
\* U+0141 and U+FFFF
ValueChars == {32, 63, 52, 70, 103, 255, 256, 321, 65535}

\* parse_args: the first two iterations of its loop, on a signature flag and
\* then on a value of up to MaxValue characters
ParseArgsValue ==
  /\ pc = "parse_args"
  /\ ~pa.returned
  /\ Len(argv) < 2
  /\ \E arg \in (IF Len(argv) = 0 THEN SigFlags ELSE SeqsUpTo(ValueChars, MaxValue)) :
       /\ argv' = Append(argv, arg)
       /\ pa' = parse_args_step(pa, arg)
  /\ UNCHANGED <<isspace_wide, sigVars, countVars, file, read_ret, i, out, err, pc, exit_code>>

\* a value may hold characters above 255, on which isspace answers either way
InitValue == /\ isspace_wide \in BOOLEAN
             /\ SigIdle
             /\ CountIdle
             /\ MainIdle

NextValue == ParseArgsValue

SpecValue == InitValue /\ [][NextValue]_vars

\* a text the hex-pattern grammar rejects: it is empty, has a character that
\* is not whitespace, '?' or a hex digit, or ends in a single hex digit
LastToken(text) == LET toks == Tokens(text, 1, <<>>) IN toks[Len(toks)]
Malformed(text) ==
  \/ text = <<>>
  \/ \E k \in 1..Len(text) : CharClass(text[k]) = "other"
  \/ /\ Tokens(text, 1, <<>>) # <<>>
     /\ ~isspace(text[Len(text)])
     /\ Len(LastToken(text)) = 1
     /\ LastToken(text)[1] \in HexDigits

\* C11: for a --pattern value that is empty, ends in a dangling hex digit or
\* holds an unrecognized character anywhere, parse_sig returns the empty
\* signature, parse_args returns false and args.sigs gets no signature.
C11_AllOrNothing ==
  (Len(argv) = 2 /\ argv[1] = FlagPattern /\ Malformed(argv[2])) =>
     /\ parse_sig(argv[2]) = <<>>
     /\ pa.returned
     /\ ~pa.result
     /\ pa.sigs = <<>>

\* parse_args returned false on --pattern "? g": a wildcard cell was compiled
\* before the unrecognized character
C11_Witness ==
  /\ Len(argv) = 2
  /\ argv[1] = FlagPattern
  /\ argv[2] = <<63, 32, 103>>
  /\ pa.returned
  /\ ~pa.result

\* the low and the high byte of a 16-bit character
LowByte(c) == c % 256
HighByte(c) == (c \div 256) % 256

\* C12: a literal of n characters compiles to exact cells only: n cells for
\* --narrow (cell k the low byte of character k), 2n cells for --wide (low
\* byte, then high byte of each character) and for --widebe (high byte, then
\* low byte); --wide and --widebe never fail.
C12_LiteralCells ==
  (Len(argv) = 2 /\ argv[1] # FlagPattern) =>
     LET value == argv[2]
         n == Len(value)
     IN
     /\ argv[1] \in {FlagWide, FlagWideBE} => ~pa.returned
     /\ ~pa.returned =>
          /\ Len(pa.sigs) = 1
          /\ \A k \in 1..Len(pa.sigs[1]) : pa.sigs[1][k].second
          /\ argv[1] = FlagNarrow =>
               /\ Len(pa.sigs[1]) = n
               /\ \A k \in 1..n : pa.sigs[1][k].first = LowByte(value[k])
          /\ argv[1] = FlagWide =>
               /\ Len(pa.sigs[1]) = 2 * n
               /\ \A k \in 1..n : /\ pa.sigs[1][2 * k - 1].first = LowByte(value[k])
                                  /\ pa.sigs[1][2 * k].first = HighByte(value[k])
          /\ argv[1] = FlagWideBE =>
               /\ Len(pa.sigs[1]) = 2 * n
               /\ \A k \in 1..n : /\ pa.sigs[1][2 * k - 1].first = HighByte(value[k])
                                  /\ pa.sigs[1][2 * k].first = LowByte(value[k])

\* --wide on the one character U+0141 gave the cells 41 01
C12_Witness ==
  /\ Len(argv) = 2
  /\ argv[1] = FlagWide
  /\ argv[2] = <<321>>
  /\ Len(pa.sigs) = 1
  /\ pa.sigs[1] = <<[first |-> 65, second |-> TRUE], [first |-> 1, second |-> TRUE]>>

\* C13: a --narrow value fails to compile exactly when one of its characters
\* is above 255; no such character is cut down to a byte and accepted.
C13_NarrowFailsAbove255 ==
  (Len(argv) = 2 /\ argv[1] = FlagNarrow) =>
     /\ (pa.returned /\ ~pa.result) <=> \E k \in 1..Len(argv[2]) : argv[2][k] > 255
     /\ (\E k \in 1..Len(argv[2]) : argv[2][k] > 255) => pa.sigs = <<>>

\* --narrow on "4" U+0141 was rejected
C13_Witness ==
  /\ Len(argv) = 2
  /\ argv[1] = FlagNarrow
  /\ argv[2] = <<52, 321>>
  /\ pa.returned
  /\ ~pa.result

\* av[k] is where parse_args takes the file path from
FilePosition(av, k) == UnrecognizedAt(av, k) \/ AfterDashDash(av, k)

\* C14: parse_args succeeds only if the file path is the last argument, any
\* argument after the file path makes it fail, and the argument after a bare
\* -- is the file path as it stands, a flag name included.
C14_FileIsLast ==
  /\ \A k \in 1..Len(argv) :
       /\ (FilePosition(argv, k) /\ k < Len(argv)) => (pa.returned /\ ~pa.result)
       /\ AfterDashDash(argv, k) => pa.file = argv[k]
  /\ (pa.returned /\ pa.result) =>
       (FilePosition(argv, Len(argv)) /\ pa.file = argv[Len(argv)])

\* parse_args returned true with the file path "--pattern", given after --
C14_Witness ==
  /\ pa.returned
  /\ pa.result
  /\ AfterDashDash(argv, Len(argv))
  /\ argv[Len(argv)] = FlagPattern
  /\ pa.file = FlagPattern

-----------------------------------------------------------------------------
(* unhex on one character                                                    *)

\* the characters unhex is tried on: every value from -130 to 300, the ends
\* of the 16-bit ranges, and characters whose low byte is a hex digit
HexInputs == (-130..300) \cup {-32768, -208, 304, 321, 353, 32767, 65535}

InitHex == /\ isspace_wide = FALSE
           /\ unhex_ch \in HexInputs
           /\ unhex_ret = -1
           /\ str = <<>>
           /\ ps = parse_sig_entry
           /\ CountIdle
           /\ MainIdle

Unhex ==
  /\ unhex_ret = -1
  /\ unhex_ret' = unhex(unhex_ch)
  /\ UNCHANGED <<isspace_wide, unhex_ch, str, ps, countVars, mainVars>>

NextHex == Unhex

SpecHex == InitHex /\ [][NextHex]_vars

\* C15: unhex returns the value 0..15 of a character that is one of 0-9, a-f,
\* A-F, the same for either case of a letter, and 0xFF for every other
\* character, zero, negative and >= 0x80 included.
C15_UnhexValues ==
  unhex_ret # -1 =>
     /\ unhex_ch \in HexDigits => unhex_ret = HexValue(unhex_ch)
     /\ unhex_ch \notin HexDigits => unhex_ret = 255
     /\ unhex_ch \in 97..102 => unhex_ret = unhex(unhex_ch - 32)

\* unhex returned 10 for 'a'
C15_Witness == unhex_ch = 97 /\ unhex_ret = 10

-----------------------------------------------------------------------------
(* count_sig on a signature parse_sig compiled                               *)

\* the bytes of the buffers a compiled pattern is counted in: 00 and 44
PatternBytes == {0, 68}

\* wmain's call count_sig(file.begin(), file.end(), sig) on a signature that
\* parse_sig returned and parse_args kept (it is not empty)
CountParsed ==
  /\ ps.returned
  /\ Len(ps.result) >= 1
  /\ ~cs.returned
  /\ \E buf \in SeqsUpTo(PatternBytes, MaxBuf) :
       /\ buffer' = buf
       /\ pattern' = ps.result
       /\ cs' = [begin |-> Len(buf), count |-> count_sig(buf, ps.result),
                 returned |-> TRUE, result |-> count_sig(buf, ps.result)]
  /\ UNCHANGED <<isspace_wide, sigVars, mainVars>>

NextWild ==
  \/ ParseSigChar
  \/ CountParsed

SpecWild == InitSig /\ [][NextWild]_vars

\* sig with b as the byte of every wildcard cell
WithWildcardByte(sig, b) ==
  [k \in 1..Len(sig) |-> IF sig[k].second THEN sig[k] ELSE [first |-> b, second |-> FALSE]]

\* C16: every wildcard cell parse_sig emits carries the byte 0, and the count
\* of a signature over a buffer does not change when its wildcard cells
\* carry another byte.
C16_WildcardByteUnobserved ==
  /\ \A k \in 1..Len(ps.sig) : ~ps.sig[k].second => ps.sig[k].first = 0
  /\ \A k \in 1..Len(ps.result) : ~ps.result[k].second => ps.result[k].first = 0
  /\ cs.returned =>
       \A b \in {65, 68, 255} : count_sig(buffer, WithWildcardByte(pattern, b)) = cs.result

\* "44 ?" was counted twice in 44 00 44 44: at offset 0, where the wildcard
\* meets the byte 00, and at offset 2, where it meets 44
C16_Witness ==
  /\ cs.returned
  /\ pattern = <<[first |-> 68, second |-> TRUE], [first |-> 0, second |-> FALSE]>>
  /\ buffer = <<68, 0, 68, 68>>
  /\ cs.result = 2

-----------------------------------------------------------------------------
(* parse_sig and the layout of whitespace                                    *)

\* the tokens from the k-th on, a single space between two of them
RECURSIVE JoinTokens(_, _)
JoinTokens(toks, k) ==
  IF k > Len(toks) THEN <<>>
  ELSE IF k = Len(toks) THEN toks[k]
  ELSE toks[k] \o <<32>> \o JoinTokens(toks, k + 1)

\* the text parse_sig has returned on: what it read, without the terminator
\* if it read one (it returns at the first character of a text it rejects,
\* and rejects any text that goes on from there)
TextRead == IF str # <<>> /\ str[Len(str)] = 0 THEN SubSeq(str, 1, Len(str) - 1) ELSE str

\* C17: the outcome of parse_sig on a text with at least one token (its
\* cells, or the failure) is that of the same tokens laid out with one space
\* between them: leading and trailing whitespace and the length of the runs
\* between tokens do not matter.
C17_LayoutInvariant ==
  LET toks == Tokens(TextRead, 1, <<>>)
  IN (ps.returned /\ Len(toks) >= 1) =>
        /\ ps.result = parse_sig(TextRead)
        /\ ps.result = parse_sig(JoinTokens(toks, 1))

\* parse_sig returned two wildcard cells for "?", space, tab, "?"
C17_Witness ==
  /\ ps.returned
  /\ str = <<63, 32, 9, 63, 0>>
  /\ Len(ps.result) = 2

-----------------------------------------------------------------------------
(* The loop of count_sig comes to an end                                     *)

\* count_sig runs on: the program is one thread that is never held up
SpecCountFair == InitCount /\ [][NextCount]_vars /\ WF_vars(CountSigIter)

\* C18: each iteration of the loop of count_sig returns or moves begin
\* forward, to one past the start of the match it counted; no more than
\* len(buffer) matches are counted; and the loop returns.
C18_LoopTerminates ==
  /\ [][~cs.returned =>
          /\ cs'.returned \/ cs'.begin > cs.begin
          /\ cs'.count # cs.count =>
               /\ cs'.count = cs.count + 1
               /\ \E p \in Occurrences(buffer, pattern) : p >= cs.begin /\ cs'.begin = p + 1]_vars
  /\ [](cs.count <= Len(buffer))
  /\ <>cs.returned

\* the loop is in its third iteration over "AAAA", two matches counted
C18_Witness ==
  /\ ~cs.returned
  /\ buffer = <<65, 65, 65, 65>>
  /\ pattern = <<[first |-> 65, second |-> TRUE]>>
  /\ cs.begin = 2
  /\ cs.count = 2

-----------------------------------------------------------------------------
(* Counting leaves its inputs alone                                          *)

\* the fields of a line of output from its k-th character on: what stands
\* before each comma or newline, cur being the field under way
RECURSIVE Fields(_, _, _)
Fields(line, k, cur) ==
  IF k > Len(line) THEN <<>>
  ELSE IF line[k] \in {10, 44} THEN <<cur>> \o Fields(line, k + 1, <<>>)
  ELSE Fields(line, k + 1, Append(cur, line[k]))

\* C19: counting changes neither the byte buffer nor any signature of the
\* set, and the count printed for a signature is its count over the buffer
\* whatever signatures stand before or after it.
C19_CountingIsReadOnly ==
  /\ [][(pc = "read_all" /\ read_ret = "true") => (file' = file /\ pa' = pa)]_vars
  /\ [](\A k \in 1..Len(Fields(out, 1, <<>>)) :
          /\ k <= Len(pa.sigs)
          /\ Fields(out, 1, <<>>)[k] = Decimal(count_sig(file, pa.sigs[k])))

\* the second of two counts was printed over a buffer that holds bytes
C19_Witness ==
  /\ pc = "read_all"
  /\ i = 2
  /\ Len(pa.sigs) = 2
  /\ file # <<>>
  /\ Len(Fields(out, 1, <<>>)) = 2

=============================================================================
